---- MODULE Spec2Model ----
(***************************************************************************)
(* RecommendationEngine (recommendation_engine.py): an engine built once   *)
(* from a movie catalog and a rating store, then queried.                  *)
(*                                                                         *)
(* Numbers.  Floats are modelled in fixed point:                           *)
(*   - ratings and User-Item Matrix entries are in half stars (5.0 = 10);  *)
(*   - similarity scores are in units of 1/ScoreOne;                       *)
(*   - hybrid weights are in tenths (0.6 = 6).                             *)
(* Row labels and numpy positions are 0-based as in the code; TLA+         *)
(* sequences are 1-based, so iloc p is movies_df[p + 1].                   *)
(***************************************************************************)
EXTENDS Integers, Sequences, FiniteSets, TLC

VARIABLES
    movies_df,                  \* self.movies_df: rows [label, movieId, genres]
    ratings_df,                 \* self.ratings_df: rows [userId, movieId, rating]
    user_item_matrix,           \* self.user_item_matrix: [index, columns, values]
    content_similarity_matrix,  \* self.content_similarity_matrix: N x N
    knn_model,                  \* self.knn_model: [fitted, data]
    constructed,                \* __init__ returned an engine (no exception)
    unstable_ties,              \* how this build's unstable sorts order equal keys
    pc,                         \* "idle" | "returned"
    last,                       \* the query just answered and its result
    memo                        \* one earlier query and its result, or NoCall

engine == <<movies_df, ratings_df, user_item_matrix,
            content_similarity_matrix, knn_model, constructed, unstable_ties>>
vars == <<movies_df, ratings_df, user_item_matrix, content_similarity_matrix,
          knn_model, constructed, unstable_ties, pc, last, memo>>

(***************************************************************************)
(* Bounds of the model and constants of the program                        *)
(***************************************************************************)
NumMovies == 3      \* rows of the catalog
ExtraUsers == 1     \* users beyond the MinRatings needed to make a movie popular
MaxN == 2           \* largest n_recommendations asked for

MinRatings == 10    \* avg_ratings['count'] >= 10
HighRating == 8     \* user_ratings >= 4.0, in half stars
FullRating == 10    \* popular_movies['mean'] / 5.0, in half stars
ScoreOne == 10000   \* the float 1.0 of a similarity score
WeightOne == 10     \* the float 1.0 of a hybrid weight

Users == 1 .. (MinRatings + ExtraUsers)
UnknownUser == MinRatings + ExtraUsers + 1
NoCall == [op |-> "none"]
Missing == <<"nan">>            \* a NaN genres cell

(***************************************************************************)
(* Sequence helpers                                                        *)
(***************************************************************************)
Min(a, b) == IF a <= b THEN a ELSE b

Range(s) == {s[i] : i \in DOMAIN s}

Reverse(s) == [i \in 1 .. Len(s) |-> s[Len(s) + 1 - i]]

\* a cut one entry too late
HeadNOffByOne(s, n) == SubSeq(s, 1, Min(n + 1, Len(s)))

\* df.head(n) / a[:n]
HeadN(s, n) == SubSeq(s, 1, Min(n, Len(s)))

RECURSIVE SumUpTo(_, _)
SumUpTo(s, i) == IF i = 0 THEN 0 ELSE s[i] + SumUpTo(s, i - 1)
SumSeq(s) == SumUpTo(s, Len(s))

RECURSIVE Concat(_)
Concat(ss) == IF ss = <<>> THEN <<>> ELSE Head(ss) \o Concat(Tail(ss))

RECURSIVE SelectSeqIdx(_, _, _)
\* the positions i (ascending, from `from`) with keep[i]
SelectSeqIdx(keep, from, len) ==
    IF from > len THEN <<>>
    ELSE (IF keep[from] THEN <<from>> ELSE <<>>) \o SelectSeqIdx(keep, from + 1, len)

\* the elements of a finite set of integers in ascending order
RECURSIVE SortedSeq(_)
SortedSeq(S) ==
    IF S = {} THEN <<>>
    ELSE LET m == CHOOSE x \in S : \A y \in S : x <= y
         IN  <<m>> \o SortedSeq(S \ {m})

RECURSIVE ISqrtBetween(_, _, _)
\* the r in lo..hi with r * r <= x < (r + 1) * (r + 1), by bisection
ISqrtBetween(x, lo, hi) ==
    IF lo >= hi THEN lo
    ELSE LET mid == (lo + hi + 1) \div 2
         IN  IF mid * mid <= x THEN ISqrtBetween(x, mid, hi)
             ELSE ISqrtBetween(x, lo, mid - 1)
\* floor of the square root (x < 2^30)
ISqrt(x) == ISqrtBetween(x, 0, 32767)

(***************************************************************************)
(* Sorting.  Items carry their key as the fraction knum / kden.            *)
(***************************************************************************)
KeyGreater(a, b) == a.knum * b.kden > b.knum * a.kden

RECURSIVE InsertDescBeforeEqual(_, _)
\* an insertion that puts x before the items of equal key
InsertDescBeforeEqual(sorted, x) ==
    IF sorted = <<>> THEN <<x>>
    ELSE IF ~KeyGreater(Head(sorted), x) THEN <<x>> \o sorted
    ELSE <<Head(sorted)>> \o InsertDescBeforeEqual(Tail(sorted), x)

RECURSIVE InsertDesc(_, _)
InsertDesc(sorted, x) ==
    IF sorted = <<>> THEN <<x>>
    ELSE IF KeyGreater(x, Head(sorted)) THEN <<x>> \o sorted
    ELSE <<Head(sorted)>> \o InsertDesc(Tail(sorted), x)

RECURSIVE StableSortDesc(_)
\* sorted(..., reverse=True): descending, equal keys keep their input order
StableSortDesc(s) ==
    IF s = <<>> THEN <<>>
    ELSE InsertDesc(StableSortDesc(SubSeq(s, 1, Len(s) - 1)), s[Len(s)])

\* numpy's default (unstable) sort behind sort_values and argsort: descending
\* by key; the order of equal keys is the build's, fixed for the engine's life
UnstableSortDesc(s) ==
    IF unstable_ties = "keep" THEN StableSortDesc(s)
    ELSE StableSortDesc(Reverse(s))

(***************************************************************************)
(* Inputs: the catalogs and rating stores an engine is constructed from    *)
(***************************************************************************)
\* the raw genres column, as the cells its rows take in rotation: NaN (Missing),
\* "Drama", "Comedy", "Sci-Fi|Drama"
GenrePatterns ==
    { <<<<"Drama">>, <<"Drama">>, <<"Comedy">>>>,
      <<<<"Sci-Fi", "Drama">>, <<"Drama">>, <<"Drama">>>>,
      <<Missing, <<"Drama">>, <<"Sci-Fi", "Drama">>>>,
      <<<<"Drama">>, Missing, Missing>>,
      <<<<"Drama">>, <<"Sci-Fi", "Drama">>, <<"Comedy">>>>,
      <<Missing>> }

\* how the caller's frame is laid out: ids 1..N in order with a RangeIndex;
\* ids in descending order; a repeated id; or rows whose labels are 1..N
\* because preprocess_data's dropna removed the row labelled 0
CatalogShapes == {"range", "unsorted", "dupid", "filtered"}

ShapeId(shape, p) ==
    CASE shape = "unsorted" -> NumMovies + 1 - p
      [] shape = "dupid" -> IF p = 1 THEN 1 ELSE p - 1
      [] OTHER -> p

ShapeLabel(shape, p) == IF shape = "filtered" THEN p ELSE p - 1

Catalog(shape, cells) ==
    [p \in 1 .. NumMovies |->
        [label |-> ShapeLabel(shape, p), movieId |-> ShapeId(shape, p),
         genres |-> cells[((p - 1) % Len(cells)) + 1]]]

\* every id a query may name: the catalog's ids and one id that is never in it
MovieIds == 1 .. (NumMovies + 1)

RatingRow(u, m, r) == [userId |-> u, movieId |-> m, rating |-> r]

\* the rating rows of one movie, by the kind of audience it has
ProfileRows(kind, m) ==
    CASE kind = "all5" -> [u \in 1 .. MinRatings |-> RatingRow(u, m, 10)]
      [] kind = "all3" -> [u \in 1 .. MinRatings |-> RatingRow(u, m, 6)]
      [] kind = "nine" -> [u \in 1 .. (MinRatings - 1) |-> RatingRow(u + 1, m, 8)]
      [] kind = "late" ->
            [u \in 1 .. (MinRatings + ExtraUsers - 1) |-> RatingRow(u + 1, m, 6)]
      [] kind = "dup" -> <<RatingRow(1, m, 10), RatingRow(1, m, 2)>>
      [] kind = "zero" -> <<RatingRow(1, m, 0)>>
      [] OTHER -> <<>>

\* a rating store gives the catalog ids the kinds of `kinds` in rotation and
\* the id outside the catalog the kind `orphan`
StoreTemplates ==
    { [kinds |-> <<"all5", "late", "all3">>, orphan |-> "none"],
      [kinds |-> <<"all5", "nine", "none">>, orphan |-> "none"],
      [kinds |-> <<"dup", "all5", "nine">>, orphan |-> "none"],
      [kinds |-> <<"zero", "all3", "all3">>, orphan |-> "none"],
      [kinds |-> <<"none">>, orphan |-> "all5"],
      [kinds |-> <<"all5", "all5", "late">>, orphan |-> "nine"],
      [kinds |-> <<"nine", "dup", "late">>, orphan |-> "none"],
      [kinds |-> <<"late", "zero", "all5">>, orphan |-> "all3"] }

KindOf(t, m) ==
    IF m = NumMovies + 1 THEN t.orphan
    ELSE t.kinds[((m - 1) % Len(t.kinds)) + 1]

RatingStore(t) ==
    Concat([m \in 1 .. (NumMovies + 1) |-> ProfileRows(KindOf(t, m), m)])

(***************************************************************************)
(* Construction: __init__ and _prepare_data                                *)
(***************************************************************************)
\* movies_df['genres'].fillna('')
FillNa(cat) ==
    [p \in DOMAIN cat |->
        [cat[p] EXCEPT !.genres = IF cat[p].genres = Missing THEN <<>> ELSE @]]

\* TfidfVectorizer's analyzer on one tag: lowercase, tokens of two or more
\* word characters, English stop words removed
Tokenize(tag) ==
    CASE tag = "Drama" -> <<"drama">>
      [] tag = "Comedy" -> <<"comedy">>
      [] tag = "Sci-Fi" -> <<"sci", "fi">>
      [] OTHER -> <<>>

DocTokens(genres) == Concat([i \in DOMAIN genres |-> Tokenize(genres[i])])

Vocabulary(cat) == UNION {Range(DocTokens(cat[p].genres)) : p \in DOMAIN cat}

\* term frequency of t in a document
TermCount(t, doc) == Cardinality({i \in DOMAIN doc : doc[i] = t})

\* 10 * ln(k), rounded
Ln10(k) == <<0, 7, 11, 14, 16, 18, 19, 21, 22, 23>>[k]

\* idf(t) = ln((1 + n) / (1 + df(t))) + 1, in tenths
Idf(t, cat) ==
    LET df == Cardinality({p \in DOMAIN cat : t \in Range(DocTokens(cat[p].genres))})
    IN  10 + Ln10(1 + Len(cat)) - Ln10(1 + df)

\* the tf-idf weight of every vocabulary term in row p (before normalisation)
TfidfRow(cat, p) ==
    [t \in Vocabulary(cat) |-> TermCount(t, DocTokens(cat[p].genres)) * Idf(t, cat)]

RECURSIVE SumOver(_, _)
SumOver(S, f) ==
    IF S = {} THEN 0
    ELSE LET x == CHOOSE y \in S : TRUE IN f[x] + SumOver(S \ {x}, f)

DotMap(a, b) == SumOver(DOMAIN a, [t \in DOMAIN a |-> a[t] * b[t]])

\* the float num / den as a score, kept to three decimals
Score(num, den) == (((ScoreOne \div WeightOne) * num) \div den) * WeightOne

\* cosine of two non-negative vectors given their dot product and squared
\* norms, as a score; a zero vector normalises to itself, so its cosine is 0
Cosine(dot, nna, nnb) ==
    IF nna = 0 \/ nnb = 0 THEN 0 ELSE Score(dot, ISqrt(nna * nnb))

\* cosine_similarity(tfidf_matrix): entry [i][j] for 0-based rows i-1, j-1
CosineSimilarity(cat) ==
    LET rows == [p \in DOMAIN cat |-> TfidfRow(cat, p)]
        nn == [p \in DOMAIN cat |-> DotMap(rows[p], rows[p])]
    IN  [i \in DOMAIN cat |->
            [j \in DOMAIN cat |-> Cosine(DotMap(rows[i], rows[j]), nn[i], nn[j])]]

\* ratings_df.pivot_table(index='userId', columns='movieId', values='rating',
\* fill_value=0): aggfunc defaults to the mean of the rows of a pair
PivotTable(rat) ==
    LET us == {rat[i].userId : i \in DOMAIN rat}
        ms == {rat[i].movieId : i \in DOMAIN rat}
        cell(u, m) ==
            LET hits == SelectSeq(rat, LAMBDA r : r.userId = u /\ r.movieId = m)
            IN  IF hits = <<>> THEN 0
                ELSE SumSeq([i \in DOMAIN hits |-> hits[i].rating]) \div Len(hits)
    IN  [index |-> SortedSeq(us), columns |-> SortedSeq(ms),
         values |-> [u \in us |-> [m \in ms |-> cell(u, m)]]]

\* user_item_matrix.T.values: one vector per column, in column order
MovieItemMatrix(uim) ==
    [c \in DOMAIN uim.columns |->
        [r \in DOMAIN uim.index |-> uim.values[uim.index[r]][uim.columns[c]]]]

\* _prepare_collaborative_model: fit only if there is at least one movie row
FitKnn(uim) ==
    IF Len(uim.columns) > 0
    THEN [fitted |-> TRUE, data |-> MovieItemMatrix(uim)]
    ELSE [fitted |-> FALSE, data |-> <<>>]

NotBuilt == <<"None">>

\* __init__: copies, pivot, content features, KNN.  fit_transform raises
\* ValueError (empty vocabulary) when no row has a token; the exception leaves
\* __init__ and no engine exists
Construct(cat, rat, ties) ==
    LET filled == FillNa(cat)
        ok == Vocabulary(filled) # {}
        uim == PivotTable(rat)
    IN  /\ movies_df = filled
        /\ ratings_df = rat
        /\ user_item_matrix = uim
        /\ constructed = ok
        /\ content_similarity_matrix = IF ok THEN CosineSimilarity(filled) ELSE NotBuilt
        /\ knn_model = IF ok THEN FitKnn(uim) ELSE NotBuilt
        /\ unstable_ties = ties

TieOrders == {"keep", "reverse"}

Init ==
    /\ \E shape \in CatalogShapes, cells \in GenrePatterns,
          t \in StoreTemplates, ties \in TieOrders :
            Construct(Catalog(shape, cells), RatingStore(t), ties)
    /\ pc = "idle"
    /\ last = NoCall
    /\ memo = NoCall

(***************************************************************************)
(* Queries.  A result is a list of entries [movieId, row, similarity_score]*)
(* where row is the 0-based position of the catalog row the entry's        *)
(* attributes (title, genres, year) come from.  Each query operator yields *)
(* [path, seeds, result]: the branch taken, the seed list handed to        *)
(* collaborative filtering (for_user only) and the list returned.          *)
(***************************************************************************)
Entry(m, row, sc) == [movieId |-> m, row |-> row, similarity_score |-> sc]

Outcome(path, seeds, result) == [path |-> path, seeds |-> seeds, result |-> result]

\* 1-based positions of the catalog rows with this id, ascending:
\* self.movies_df[self.movies_df['movieId'] == movie_id]
RowsOf(movie_id) ==
    SelectSeqIdx([p \in DOMAIN movies_df |-> movies_df[p].movieId = movie_id],
                 1, Len(movies_df))

\* the ranking without the count filter
PopularRankingNoThreshold ==
    LET idset == {ratings_df[i].movieId : i \in DOMAIN ratings_df}
        at == [m \in idset |-> {i \in DOMAIN ratings_df : ratings_df[i].movieId = m}]
        rating == [i \in DOMAIN ratings_df |-> ratings_df[i].rating]
        count == [m \in idset |-> Cardinality(at[m])]
        total == [m \in idset |-> SumOver(at[m], rating)]
        kept == SortedSeq({m \in idset : count[m] >= 1})
        merged ==
            Concat([g \in DOMAIN kept |->
                LET rows == RowsOf(kept[g])
                IN  [k \in DOMAIN rows |->
                        [movieId |-> kept[g], row |-> rows[k] - 1,
                         knum |-> total[kept[g]], kden |-> count[kept[g]]]]])
    IN  UnstableSortDesc(merged)

\* ratings_df.groupby('movieId')['rating'].agg(['mean', 'count']), restricted
\* to count >= 10, merged with movies_df on movieId (left key order, then
\* catalog order), sorted by mean descending
PopularRanking ==
    LET idset == {ratings_df[i].movieId : i \in DOMAIN ratings_df}
        at == [m \in idset |-> {i \in DOMAIN ratings_df : ratings_df[i].movieId = m}]
        rating == [i \in DOMAIN ratings_df |-> ratings_df[i].rating]
        count == [m \in idset |-> Cardinality(at[m])]
        total == [m \in idset |-> SumOver(at[m], rating)]
        kept == SortedSeq({m \in idset : count[m] >= MinRatings})
        merged ==
            Concat([g \in DOMAIN kept |->
                LET rows == RowsOf(kept[g])
                IN  [k \in DOMAIN rows |->
                        [movieId |-> kept[g], row |-> rows[k] - 1,
                         knum |-> total[kept[g]], kden |-> count[kept[g]]]]])
    IN  UnstableSortDesc(merged)

\* _get_popular_movies
GetPopularMovies(n) ==
    LET ranked == HeadN(PopularRanking, n)
    IN  [i \in DOMAIN ranked |->
            Entry(ranked[i].movieId, ranked[i].row,
                  Score(ranked[i].knum, ranked[i].kden * FullRating))]

\* content_based_recommendations answering an unknown id with an empty list
ContentBasedNoFallback(movie_id, n) ==
    LET found == RowsOf(movie_id)
        movie_idx == movies_df[found[1]].label
    IN  IF found = <<>> \/ movie_idx >= Len(content_similarity_matrix)
        THEN Outcome("popular", <<>>, <<>>)
        ELSE LET sims == content_similarity_matrix[movie_idx + 1]
                 scored == [j \in DOMAIN sims |->
                               [pos |-> j - 1, knum |-> sims[j], kden |-> 1]]
                 sorted == StableSortDesc(scored)
                 top == SubSeq(sorted, 2, Min(n + 1, Len(sorted)))
             IN  Outcome("similar", <<>>,
                    [i \in DOMAIN top |->
                        Entry(movies_df[top[i].pos + 1].movieId, top[i].pos,
                              top[i].knum)])

\* content_based_recommendations
ContentBased(movie_id, n) ==
    LET found == RowsOf(movie_id)
        movie_idx == movies_df[found[1]].label
    IN  IF found = <<>> \/ movie_idx >= Len(content_similarity_matrix)
        THEN \* IndexError: .index[0] of no row, or a label past the matrix
             Outcome("popular", <<>>, GetPopularMovies(n))
        ELSE LET sims == content_similarity_matrix[movie_idx + 1]
                 scored == [j \in DOMAIN sims |->
                               [pos |-> j - 1, knum |-> sims[j], kden |-> 1]]
                 sorted == StableSortDesc(scored)
                 top == SubSeq(sorted, 2, Min(n + 1, Len(sorted)))
             IN  Outcome("similar", <<>>,
                    [i \in DOMAIN top |->
                        Entry(movies_df[top[i].pos + 1].movieId, top[i].pos,
                              top[i].knum)])

\* knn_model.kneighbors([vector of column c], n_neighbors=k): the k fitted
\* vectors nearest by cosine distance, nearest first, as [pos, dist]
KNeighbors(c, k) ==
    LET data == knn_model.data
        nn == [j \in DOMAIN data |->
                  SumSeq([r \in DOMAIN data[j] |-> data[j][r] * data[j][r]])]
        dot == [j \in DOMAIN data |->
                  SumSeq([r \in DOMAIN data[j] |-> data[c][r] * data[j][r]])]
        all == [j \in DOMAIN data |->
                  [pos |-> j, kden |-> 1,
                   knum |-> 0 - (ScoreOne - Cosine(dot[j], nn[c], nn[j]))]]
        near == HeadN(UnstableSortDesc(all), k)
    IN  [i \in DOMAIN near |-> [pos |-> near[i].pos, dist |-> 0 - near[i].knum]]

\* the entries one seed contributes: its neighbours but the first, each with
\* similarity 1 - distance, those whose id is in the catalog
SeedNeighbors(movie_id, n) ==
    LET cols == user_item_matrix.columns
        c == CHOOSE i \in DOMAIN cols : cols[i] = movie_id
        nb == KNeighbors(c, Min(n + 1, Len(cols)))
        rest == SubSeq(nb, 2, Len(nb))
        known == SelectSeq(rest, LAMBDA x : RowsOf(cols[x.pos]) # <<>>)
    IN  IF movie_id \notin Range(cols) THEN <<>>
        ELSE [i \in DOMAIN known |->
                Entry(cols[known[i].pos], RowsOf(cols[known[i].pos])[1] - 1,
                      ScoreOne - known[i].dist)]

RECURSIVE DropDuplicatesKeepLast(_, _)
\* a deduplication that keeps the last entry of each movie id
DropDuplicatesKeepLast(s, seen) ==
    IF s = <<>> THEN <<>>
    ELSE IF \E j \in 2 .. Len(s) : s[j].movieId = Head(s).movieId
    THEN DropDuplicatesKeepLast(Tail(s), seen)
    ELSE <<Head(s)>> \o DropDuplicatesKeepLast(Tail(s), seen)

RECURSIVE DropDuplicates(_, _)
\* drop_duplicates(subset=['movieId']): the first entry of each movie id
DropDuplicates(s, seen) ==
    IF s = <<>> THEN <<>>
    ELSE IF Head(s).movieId \in seen THEN DropDuplicates(Tail(s), seen)
    ELSE <<Head(s)>> \o DropDuplicates(Tail(s), seen \cup {Head(s).movieId})

WithKey(s) ==
    [i \in DOMAIN s |->
        [movieId |-> s[i].movieId, row |-> s[i].row,
         knum |-> s[i].similarity_score, kden |-> 1]]

WithoutKey(s) == [i \in DOMAIN s |-> Entry(s[i].movieId, s[i].row, s[i].knum)]

\* collaborative_filtering_recommendations answering an empty pool with an
\* empty list
CollaborativeNoFallback(movie_ids, n) ==
    LET pooled == Concat([i \in DOMAIN movie_ids |-> SeedNeighbors(movie_ids[i], n)])
    IN  Outcome("pooled", <<>>,
            HeadN(WithoutKey(UnstableSortDesc(WithKey(DropDuplicates(pooled, {})))), n))

\* collaborative_filtering_recommendations giving up on the whole list at the
\* first id that has no column
CollaborativeAbortsOnUnmatched(movie_ids, n) ==
    LET pooled == Concat([i \in DOMAIN movie_ids |-> SeedNeighbors(movie_ids[i], n)])
    IN  IF pooled = <<>>
            \/ \E i \in DOMAIN movie_ids :
                    movie_ids[i] \notin Range(user_item_matrix.columns)
        THEN Outcome("popular", <<>>, GetPopularMovies(n))
        ELSE Outcome("pooled", <<>>,
                HeadN(WithoutKey(UnstableSortDesc(WithKey(DropDuplicates(pooled, {})))), n))

\* collaborative_filtering_recommendations
Collaborative(movie_ids, n) ==
    LET pooled == Concat([i \in DOMAIN movie_ids |-> SeedNeighbors(movie_ids[i], n)])
    IN  IF pooled = <<>>
        THEN Outcome("popular", <<>>, GetPopularMovies(n))
        ELSE Outcome("pooled", <<>>,
                HeadN(WithoutKey(UnstableSortDesc(WithKey(DropDuplicates(pooled, {})))), n))

RECURSIVE Accumulate(_, _, _)
\* hybrid_scores[movie_id] = hybrid_scores.get(movie_id, 0) + weight * score,
\* for every entry of recs in order; a dict keeps its keys in insertion order
Accumulate(scores, recs, weight) ==
    IF recs = <<>> THEN scores
    ELSE LET m == Head(recs).movieId
             add == (weight * Head(recs).similarity_score) \div WeightOne
             at == SelectSeqIdx([i \in DOMAIN scores |-> scores[i].movieId = m],
                                1, Len(scores))
             next == IF at = <<>>
                     THEN Append(scores, [movieId |-> m, knum |-> add, kden |-> 1])
                     ELSE [scores EXCEPT ![at[1]].knum = @ + add]
         IN  Accumulate(next, Tail(recs), weight)

\* hybrid_recommendations
Hybrid(movie_ids, n, content_weight, collab_weight) ==
    LET content_recs == IF movie_ids = <<>> THEN <<>>
                        ELSE ContentBased(movie_ids[1], n * 2).result
        collab_recs == Collaborative(movie_ids, n * 2).result
        hybrid_scores == Accumulate(Accumulate(<<>>, content_recs, content_weight),
                                    collab_recs, collab_weight)
        top == HeadN(StableSortDesc(hybrid_scores), n)
        known == SelectSeq(top, LAMBDA x : RowsOf(x.movieId) # <<>>)
    IN  IF known = <<>>
        THEN Outcome("popular", <<>>, GetPopularMovies(n))
        ELSE Outcome("merged", <<>>,
                [i \in DOMAIN known |->
                    Entry(known[i].movieId, RowsOf(known[i].movieId)[1] - 1,
                          known[i].knum)])

\* get_user_recommendations
GetUserRecommendations(user_id, n) ==
    LET cols == user_item_matrix.columns
        high_rated_movies ==
            SelectSeq(cols, LAMBDA m : user_item_matrix.values[user_id][m] >= HighRating)
    IN  IF user_id \notin Range(user_item_matrix.index)
        THEN Outcome("unknown", <<>>, GetPopularMovies(n))
        ELSE IF high_rated_movies # <<>>
        THEN Outcome("collaborative", high_rated_movies,
                     Collaborative(high_rated_movies, n).result)
        ELSE Outcome("nohigh", <<>>, GetPopularMovies(n))

(***************************************************************************)
(* Actions: one per query, and the caller taking the answer                *)
(***************************************************************************)
Ns == 1 .. MaxN
\* the movie_ids lists asked with: no id, one id, two different ids in
\* either order
SeedLists ==
    {<<>>} \cup {<<a>> : a \in MovieIds}
           \cup {p \in MovieIds \X MovieIds : p[1] # p[2]}
\* (content_weight, collab_weight): the defaults 0.6/0.4, 1.0/0.0, 1.0/1.0
Weights == {<<6, 4>>, <<10, 0>>, <<10, 10>>}
\* the (movie_ids, weights) a hybrid query is asked with: any list under the
\* default weights, the lists of at most one id under the other weights
HybridArgs ==
    {a \in SeedLists \X Weights : a[2] = <<6, 4>> \/ Len(a[1]) <= 1}
QueryUsers == {1, 2, MinRatings + ExtraUsers, UnknownUser}

Call(op, ids, user, n, cw, bw) ==
    [op |-> op, movie_ids |-> ids, user_id |-> user, n |-> n,
     content_weight |-> cw, collab_weight |-> bw]

\* a query after which the unstable sorts order equal keys the other way
EngineFrameRedrawsTies ==
    /\ unstable_ties' = IF unstable_ties = "keep" THEN "reverse" ELSE "keep"
    /\ UNCHANGED <<movies_df, ratings_df, user_item_matrix,
                   content_similarity_matrix, knn_model, constructed>>

\* a query that sorts self.movies_df in place instead of a copy of it
EngineFrameSortsCatalog ==
    /\ movies_df' = Reverse(movies_df)
    /\ UNCHANGED <<ratings_df, user_item_matrix, content_similarity_matrix,
                   knn_model, constructed, unstable_ties>>

\* a query reads the engine and assigns none of its attributes
EngineFrame == UNCHANGED engine

Answer(call, out) ==
    /\ pc = "idle"
    /\ constructed
    /\ last' = [op |-> call.op, call |-> call, path |-> out.path,
                seeds |-> out.seeds, result |-> out.result]
    /\ pc' = "returned"
    /\ EngineFrame
    /\ UNCHANGED memo

QueryContentBased ==
    \E m \in MovieIds, n \in Ns :
        Answer(Call("content_based", <<m>>, 0, n, 0, 0), ContentBased(m, n))

QueryCollaborative ==
    \E ids \in SeedLists, n \in Ns :
        Answer(Call("collaborative", ids, 0, n, 0, 0), Collaborative(ids, n))

QueryHybrid ==
    \E a \in HybridArgs, n \in Ns :
        Answer(Call("hybrid", a[1], 0, n, a[2][1], a[2][2]),
               Hybrid(a[1], n, a[2][1], a[2][2]))

QueryPopular ==
    \E n \in Ns :
        Answer(Call("popular", <<>>, 0, n, 0, 0),
               Outcome("popular", <<>>, GetPopularMovies(n)))

QueryForUser ==
    \E u \in QueryUsers, n \in Ns :
        Answer(Call("for_user", <<>>, u, n, 0, 0), GetUserRecommendations(u, n))

\* the caller takes the returned list; the engine is ready for the next query
Return ==
    /\ pc = "returned"
    /\ pc' = "idle"
    /\ last' = NoCall
    /\ UNCHANGED <<engine, memo>>

Next ==
    \/ QueryContentBased
    \/ QueryCollaborative
    \/ QueryHybrid
    \/ QueryPopular
    \/ QueryForUser
    \/ Return

Spec == Init /\ [][Next]_vars

(***************************************************************************)
(* The same engine with a caller that keeps one answer to compare a later  *)
(* answer with, on one catalog and rating store                            *)
(***************************************************************************)
\* the caller keeps the returned list and the call that produced it
Remember ==
    /\ pc = "returned"
    /\ memo = NoCall
    /\ memo' = [op |-> "kept", call |-> last.call, result |-> last.result]
    /\ pc' = "idle"
    /\ last' = NoCall
    /\ UNCHANGED engine

InitRepeat ==
    /\ \E ties \in TieOrders :
            Construct(Catalog("unsorted", <<<<"Drama">>, <<"Drama">>, <<"Comedy">>>>),
                      RatingStore([kinds |-> <<"all5", "late", "all3">>,
                                   orphan |-> "none"]),
                      ties)
    /\ pc = "idle"
    /\ last = NoCall
    /\ memo = NoCall

NextRepeat == Next \/ Remember

SpecRepeat == InitRepeat /\ [][NextRepeat]_vars

(***************************************************************************)
(* The HTTP front (api_server.py): POST /api/recommendations on the module *)
(* global `engine`, which is None when initialize_data's constructor call  *)
(* raised                                                                  *)
(***************************************************************************)
\* data.get('algorithm', 'content'): the three strategy names and another
ApiAlgorithms == {"content", "collaborative", "hybrid", "svd"}

Response(status, error, body) == [status |-> status, error |-> error, body |-> body]

\* a handler that answers an id outside the catalog with an error
GetRecommendationsRejectsUnknown(movie_ids, algorithm, n) ==
    IF ~constructed
    THEN Response(500, "Recommendation engine not initialized", <<>>)
    ELSE IF movie_ids = <<>>
    THEN Response(400, "No movie IDs provided", <<>>)
    ELSE IF \E i \in DOMAIN movie_ids : RowsOf(movie_ids[i]) = <<>>
    THEN Response(500, "Failed to generate recommendations", <<>>)
    ELSE IF algorithm = "content"
    THEN Response(200, "", ContentBased(movie_ids[1], n).result)
    ELSE IF algorithm = "collaborative"
    THEN Response(200, "", Collaborative(movie_ids, n).result)
    ELSE IF algorithm = "hybrid"
    THEN Response(200, "", Hybrid(movie_ids, n, 6, 4).result)
    ELSE Response(400, "Invalid algorithm", <<>>)

\* get_recommendations: the response to a request body
\* {movie_ids, algorithm, n_recommendations}
GetRecommendations(movie_ids, algorithm, n) ==
    IF ~constructed
    THEN Response(500, "Recommendation engine not initialized", <<>>)
    ELSE IF movie_ids = <<>>
    THEN Response(400, "No movie IDs provided", <<>>)
    ELSE IF algorithm = "content"
    THEN Response(200, "", ContentBased(movie_ids[1], n).result)
    ELSE IF algorithm = "collaborative"
    THEN Response(200, "", Collaborative(movie_ids, n).result)
    ELSE IF algorithm = "hybrid"
    THEN Response(200, "", Hybrid(movie_ids, n, 6, 4).result)
    ELSE Response(400, "Invalid algorithm", <<>>)

PostRecommendations ==
    \E ids \in SeedLists, algorithm \in ApiAlgorithms, n \in Ns :
        LET response == GetRecommendations(ids, algorithm, n)
        IN  /\ pc = "idle"
            /\ last' = [op |-> "api",
                        call |-> [op |-> "api", movie_ids |-> ids,
                                  algorithm |-> algorithm, n |-> n],
                        path |-> "api", seeds |-> <<>>,
                        status |-> response.status, error |-> response.error,
                        result |-> response.body]
            /\ pc' = "returned"
            /\ EngineFrame
            /\ UNCHANGED memo

\* initialize_data: the frames of load_sample_data (ids in order under a
\* RangeIndex, one rating row per pair) handed to the constructor; `engine`
\* stays None when the constructor raises
InitApi ==
    /\ \E cells \in GenrePatterns, ties \in TieOrders,
          t \in {x \in StoreTemplates :
                    \A i \in DOMAIN x.kinds : x.kinds[i] # "dup"} :
            Construct(Catalog("range", cells), RatingStore(t), ties)
    /\ pc = "idle"
    /\ last = NoCall
    /\ memo = NoCall

NextApi == PostRecommendations \/ Return

SpecApi == InitApi /\ [][NextApi]_vars

(***************************************************************************)
(* Vocabulary of the properties                                            *)
(***************************************************************************)
Returned(op) == pc = "returned" /\ last.op = op

\* the data model's catalog: ids unique, rows labelled 0..N-1
UniqueIds ==
    \A p, q \in DOMAIN movies_df : movies_df[p].movieId = movies_df[q].movieId => p = q
DefaultLabels == \A p \in DOMAIN movies_df : movies_df[p].label = p - 1
\* the data model's rating store: one row per (userId, movieId)
NoDuplicatePairs ==
    \A i, j \in DOMAIN ratings_df :
        (ratings_df[i].userId = ratings_df[j].userId
            /\ ratings_df[i].movieId = ratings_df[j].movieId) => i = j

InCatalog(m) == \E p \in DOMAIN movies_df : movies_df[p].movieId = m
IdsOf(r) == [i \in DOMAIN r |-> r[i].movieId]

\* the rating rows of a movie, their number and their sum (half stars)
RowsRating(m) == {i \in DOMAIN ratings_df : ratings_df[i].movieId = m}
RatingCount(m) == Cardinality(RowsRating(m))
RatingTotal(m) == SumOver(RowsRating(m), [i \in DOMAIN ratings_df |-> ratings_df[i].rating])
\* mean rating of a above that of b
MeanAbove(a, b) == RatingTotal(a) * RatingCount(b) > RatingTotal(b) * RatingCount(a)

(***************************************************************************)
(* C1: content_based(m.id, n) never includes m.id itself.  Stated for the  *)
(* catalogs of the data model (unique ids, default row labels): the result *)
(* of a content_based query for a catalog movie has no entry with its id.  *)
(***************************************************************************)
C1_NeverRecommendsItself ==
    (Returned("content_based") /\ UniqueIds /\ DefaultLabels
        /\ InCatalog(last.call.movie_ids[1]))
    => \A i \in DOMAIN last.result : last.result[i].movieId # last.call.movie_ids[1]

(***************************************************************************)
(* C2: every strategy returns at most n entries.                           *)
(***************************************************************************)
C2_AtMostN == pc = "returned" => Len(last.result) <= last.call.n

\* hybrid answered n = 1 entry out of two component lists of 2n entries each
C2_Witness ==
    /\ Returned("hybrid") /\ last.path = "merged" /\ last.call.n = 1
    /\ Len(last.result) = 1
    /\ last.call.movie_ids # <<>>
    /\ Len(ContentBased(last.call.movie_ids[1], 2).result) = 2
    /\ Len(Collaborative(last.call.movie_ids, 2).result) = 2

(***************************************************************************)
(* C3: for an id absent from the catalog, content_based(x, n) is exactly   *)
(* popular(n): same movies, same order, same scores.                       *)
(***************************************************************************)
C3_UnknownIdIsPopular ==
    (Returned("content_based") /\ ~InCatalog(last.call.movie_ids[1]))
    => last.result = GetPopularMovies(last.call.n)

C3_Witness ==
    /\ Returned("content_based") /\ ~InCatalog(last.call.movie_ids[1])
    /\ Len(last.result) = MaxN

(***************************************************************************)
(* C4: popular(n) is the first n (or all, when fewer qualify) of the       *)
(* catalog rows whose movie has at least 10 ratings, by mean rating        *)
(* descending, each scored mean / 5.0; no movie with fewer than 10 ratings *)
(* appears.                                                                *)
(***************************************************************************)
QualifyingRows == {p \in DOMAIN movies_df : RatingCount(movies_df[p].movieId) >= 10}

C4_Popular ==
    Returned("popular") =>
        LET r == last.result
            shown == {r[i].row + 1 : i \in DOMAIN r}
        IN  /\ Len(r) = Min(last.call.n, Cardinality(QualifyingRows))
            /\ Cardinality(shown) = Len(r)
            /\ shown \subseteq QualifyingRows
            /\ \A i \in DOMAIN r :
                /\ movies_df[r[i].row + 1].movieId = r[i].movieId
                /\ r[i].similarity_score
                     = Score(RatingTotal(r[i].movieId), RatingCount(r[i].movieId) * 5 * 2)
            /\ \A i, j \in DOMAIN r : i < j => ~MeanAbove(r[j].movieId, r[i].movieId)
            /\ \A p \in QualifyingRows \ shown, i \in DOMAIN r :
                ~MeanAbove(movies_df[p].movieId, r[i].movieId)

\* fewer movies qualify than were asked for, while a rated movie is left out
C4_Witness ==
    /\ Returned("popular") /\ Len(last.result) = 1 /\ last.call.n = MaxN
    /\ \E p \in DOMAIN movies_df :
        LET c == RatingCount(movies_df[p].movieId) IN c > 0 /\ c < 10

\* popular(n) cuts a longer ranking, in which mean ratings differ
C4_WitnessCut ==
    /\ Returned("popular") /\ Len(last.result) = 1
    /\ Cardinality(QualifyingRows) > 1
    /\ \E p \in QualifyingRows : MeanAbove(last.result[1].movieId, movies_df[p].movieId)

(***************************************************************************)
(* C5: for_user(userId, n) is popular(n) for an unknown user and for a     *)
(* known user with no rating >= 4.0, and otherwise collaborative(S, n) for *)
(* S the movies the user rated >= 4.0 (a pair's rating being that of its   *)
(* first row, as the data model has it); collaborative is never called     *)
(* with an empty seed list.                                                *)
(***************************************************************************)
RowsBy(u) == {i \in DOMAIN ratings_df : ratings_df[i].userId = u}
FirstRating(u, m) ==
    LET rows == {i \in RowsBy(u) : ratings_df[i].movieId = m}
    IN  ratings_df[CHOOSE i \in rows : \A j \in rows : i <= j].rating
LikedBy(u) ==
    SortedSeq({m \in {ratings_df[i].movieId : i \in RowsBy(u)} : FirstRating(u, m) >= 8})

C5_ForUser ==
    Returned("for_user") =>
        LET u == last.call.user_id
            n == last.call.n
        IN  /\ (last.path = "collaborative" => last.seeds # <<>>)
            /\ IF RowsBy(u) = {} \/ LikedBy(u) = <<>>
               THEN last.path # "collaborative" /\ last.result = GetPopularMovies(n)
               ELSE /\ last.path = "collaborative"
                    /\ last.seeds = LikedBy(u)
                    /\ last.result = Collaborative(LikedBy(u), n).result

\* C5 on the rating stores that hold one row per (userId, movieId)
C5_ForUserOnCleanStore == NoDuplicatePairs => C5_ForUser

(***************************************************************************)
(* C6: construction fails, leaving no usable engine, whenever the catalog  *)
(* has two movies with the same id or no rating row references a catalog   *)
(* movie; it succeeds only when neither holds.                             *)
(***************************************************************************)
SomeRatingInCatalog == \E i \in DOMAIN ratings_df : InCatalog(ratings_df[i].movieId)

C6_ConstructionValidates ==
    (~UniqueIds \/ ~SomeRatingInCatalog) => ~constructed

(***************************************************************************)
(* C7: hybrid(ids, n, 1.0, 0.0) ranks as content_based(ids[0], n): the     *)
(* same movies in the same order, followed by other movies only when       *)
(* content_based has fewer than n results.                                 *)
(***************************************************************************)
C7_HybridContentOnly ==
    (Returned("hybrid") /\ last.call.movie_ids # <<>>
        /\ last.call.content_weight = 10 /\ last.call.collab_weight = 0)
    => LET c == IdsOf(ContentBased(last.call.movie_ids[1], last.call.n).result)
           h == IdsOf(last.result)
       IN  Len(h) >= Len(c) /\ SubSeq(h, 1, Len(c)) = c

\* C7 on the catalogs whose movie ids are unique
C7_HybridContentOnlyOnUniqueIds == UniqueIds => C7_HybridContentOnly

(***************************************************************************)
(* C8: every entry of every returned list has a similarity score in [0,1]. *)
(***************************************************************************)
C8_ScoresInUnitInterval ==
    pc = "returned" =>
        \A i \in DOMAIN last.result :
            last.result[i].similarity_score \in 0 .. 10000

\* C8 for the queries other than hybrid
C8_ScoresInUnitIntervalButHybrid ==
    (pc = "returned" /\ last.op # "hybrid") =>
        \A i \in DOMAIN last.result :
            last.result[i].similarity_score \in 0 .. 10000

(***************************************************************************)
(* C9: every returned list is ordered by descending score, and entries     *)
(* with equal score appear in catalog order.                               *)
(***************************************************************************)
Descending(r) ==
    \A i, j \in DOMAIN r : i < j => r[i].similarity_score >= r[j].similarity_score
TiesInCatalogOrder(r) ==
    \A i, j \in DOMAIN r :
        (i < j /\ r[i].similarity_score = r[j].similarity_score) => r[i].row < r[j].row

C9_WitnessOther ==
    /\ Returned("collaborative") /\ last.path = "pooled"
    /\ Len(last.result) = 2
    /\ last.result[1].similarity_score > last.result[2].similarity_score

HasGenreToken(p) == DocTokens(movies_df[p].genres) # <<>>

C11_SymmetricUnitDiagonal ==
    constructed =>
        \A i, j \in DOMAIN movies_df :
            /\ content_similarity_matrix[i][j] = content_similarity_matrix[j][i]
            /\ content_similarity_matrix[i][i] = ScoreOne

\* C11 with the diagonal read only at the rows that have a genre token
C11_SymmetricUnitDiagonalOnTagged ==
    constructed =>
        \A i, j \in DOMAIN movies_df :
            /\ content_similarity_matrix[i][j] = content_similarity_matrix[j][i]
            /\ HasGenreToken(i) => content_similarity_matrix[i][i] = ScoreOne
            /\ ~HasGenreToken(i) => content_similarity_matrix[i][j] = 0

(***************************************************************************)
(* C12: collaborative(ids, n) is exactly popular(n) whenever no seed       *)
(* contributes a neighbour: in particular when ids is empty or none of the *)
(* ids has a rating row.                                                   *)
(***************************************************************************)
Rated(m) == \E i \in DOMAIN ratings_df : ratings_df[i].movieId = m
NoSeedContributes(ids, n) == \A i \in DOMAIN ids : SeedNeighbors(ids[i], n) = <<>>

C12_CollaborativeFallsBack ==
    Returned("collaborative") =>
        LET ids == last.call.movie_ids
            n == last.call.n
        IN  /\ (\A i \in DOMAIN ids : ~Rated(ids[i])) => NoSeedContributes(ids, n)
            /\ NoSeedContributes(ids, n) => last.result = GetPopularMovies(n)

\* ids that have no rating row, answered with a non-empty popular list
C12_Witness ==
    /\ Returned("collaborative") /\ last.call.movie_ids # <<>>
    /\ \A i \in DOMAIN last.call.movie_ids : ~Rated(last.call.movie_ids[i])
    /\ last.result # <<>>

\* a rated id whose neighbours are all outside the catalog
C12_WitnessRated ==
    /\ Returned("collaborative") /\ Len(last.call.movie_ids) = 1
    /\ Rated(last.call.movie_ids[1])
    /\ Len(user_item_matrix.columns) > 1
    /\ last.path = "popular"

(***************************************************************************)
(* C13: when at least one of the ids has a rating row, collaborative(ids,  *)
(* n) equals collaborative(ids', n), ids' being ids without the ids that   *)
(* have no rating row: an unmatched id is skipped.                         *)
(***************************************************************************)
RatedOnly(ids) == SelectSeq(ids, Rated)

C13_UnmatchedIdsSkipped ==
    (Returned("collaborative")
        /\ \E i \in DOMAIN last.call.movie_ids : Rated(last.call.movie_ids[i]))
    => last.result = Collaborative(RatedOnly(last.call.movie_ids), last.call.n).result

\* an unrated id ahead of a rated one, answered from the rated one's
\* neighbours with a list that is not the popular one
C13_Witness ==
    /\ Returned("collaborative") /\ Len(last.call.movie_ids) = 2
    /\ ~Rated(last.call.movie_ids[1]) /\ Rated(last.call.movie_ids[2])
    /\ last.path = "pooled"
    /\ last.result # GetPopularMovies(last.call.n)

(***************************************************************************)
(* C14: when neither component has a candidate of its own (movie_ids is    *)
(* empty, or none of the ids is in the catalog or has a rating row),       *)
(* hybrid(movie_ids, n) with the default weights is exactly popular(n):    *)
(* same movies, same order, same scores.                                   *)
(***************************************************************************)
KnownNowhere(ids) == \A i \in DOMAIN ids : ~InCatalog(ids[i]) /\ ~Rated(ids[i])
DefaultWeights == last.call.content_weight = 6 /\ last.call.collab_weight = 4

C14_HybridNothingIsPopular ==
    (Returned("hybrid") /\ DefaultWeights /\ KnownNowhere(last.call.movie_ids))
    => last.result = GetPopularMovies(last.call.n)

\* C14 for the movies and their order only, on a catalog with unique ids
C14_HybridNothingRanksAsPopular ==
    (Returned("hybrid") /\ DefaultWeights /\ KnownNowhere(last.call.movie_ids)
        /\ UniqueIds)
    => IdsOf(last.result) = IdsOf(GetPopularMovies(last.call.n))

\* C14 for a non-empty list of ids, on a catalog with unique ids
C14_HybridUnknownIdsIsPopular ==
    (Returned("hybrid") /\ DefaultWeights /\ KnownNowhere(last.call.movie_ids)
        /\ last.call.movie_ids # <<>> /\ UniqueIds)
    => last.result = GetPopularMovies(last.call.n)

(***************************************************************************)
(* C15: POST /api/recommendations answers with an error response only when *)
(* the engine has not been constructed or the algorithm name is not one of *)
(* content / collaborative / hybrid; every other request, one naming       *)
(* unknown ids included, gets a recommendation list.                       *)
(***************************************************************************)
ValidAlgorithm == last.call.algorithm \in {"content", "collaborative", "hybrid"}

\* the list the engine's strategy gives for the request just answered
StrategyList ==
    LET ids == last.call.movie_ids
        n == last.call.n
    IN  CASE last.call.algorithm = "content" -> ContentBased(ids[1], n).result
          [] last.call.algorithm = "collaborative" -> Collaborative(ids, n).result
          [] OTHER -> Hybrid(ids, n, 6, 4).result

C15_WitnessErrors ==
    /\ Returned("api") /\ last.status = 400 /\ last.call.movie_ids = <<>>
    /\ ValidAlgorithm /\ constructed

(***************************************************************************)
(* C16: for every catalog (unique ids), one whose row labels are not       *)
(* 0..N-1 after preprocessing included, and every id m in it,              *)
(* content_based(m, n) returns the n other movies most similar to m's own  *)
(* genre vector, each annotated with its similarity to m.                  *)
(***************************************************************************)
\* the 1-based position of the catalog row of movie m
RowOfMovie(m) == CHOOSE p \in DOMAIN movies_df : movies_df[p].movieId = m

C16_NearestOthersOwnRow ==
    (Returned("content_based") /\ UniqueIds /\ InCatalog(last.call.movie_ids[1]))
    => LET p == RowOfMovie(last.call.movie_ids[1])
           r == last.result
           shown == {r[i].row + 1 : i \in DOMAIN r}
           others == DOMAIN movies_df \ {p}
       IN  /\ Len(r) = Min(last.call.n, Cardinality(others))
           /\ Cardinality(shown) = Len(r)
           /\ shown \subseteq others
           /\ \A i \in DOMAIN r :
                r[i].similarity_score = content_similarity_matrix[p][r[i].row + 1]
           /\ \A q \in others \ shown, i \in DOMAIN r :
                content_similarity_matrix[p][q] <= r[i].similarity_score

\* the annotation alone: every score is the similarity to m's own row
C16_ScoresFromOwnRow ==
    (Returned("content_based") /\ UniqueIds /\ InCatalog(last.call.movie_ids[1]))
    => LET p == RowOfMovie(last.call.movie_ids[1])
       IN  \A i \in DOMAIN last.result :
                last.result[i].similarity_score
                    = content_similarity_matrix[p][last.result[i].row + 1]

\* the annotation on the catalogs whose rows are labelled 0..N-1
C16_ScoresFromOwnRowOnDefaultLabels == DefaultLabels => C16_ScoresFromOwnRow

(***************************************************************************)
(* C17: for a single seed m that has ratings, the neighbour list of        *)
(* collaborative([m], n) never contains m itself, also when another movie  *)
(* has the same rating vector as m or m's vector is all zeros.             *)
(***************************************************************************)
SingleRatedSeed ==
    /\ Returned("collaborative") /\ last.path = "pooled"
    /\ Len(last.call.movie_ids) = 1 /\ Rated(last.call.movie_ids[1])

C17_SeedNotInNeighbours ==
    SingleRatedSeed =>
        \A i \in DOMAIN last.result : last.result[i].movieId # last.call.movie_ids[1]

\* the rating vector of movie m: its column of the User-Item Matrix
ColumnOf(m) == [u \in Range(user_item_matrix.index) |-> user_item_matrix.values[u][m]]

\* two rating vectors pointing the same way (cosine distance 0)
Proportional(a, b) == \A u, v \in DOMAIN a : a[u] * b[v] = a[v] * b[u]

\* C17 for the seeds whose vector points the way of no other movie's (an
\* all-zero vector points every way)
C17_SeedNotInNeighboursWhenApart ==
    (SingleRatedSeed
        /\ \A m \in Range(user_item_matrix.columns) :
                m # last.call.movie_ids[1]
                    => ~Proportional(ColumnOf(m), ColumnOf(last.call.movie_ids[1])))
    => \A i \in DOMAIN last.result : last.result[i].movieId # last.call.movie_ids[1]

(***************************************************************************)
(* C18: collaborative(ids, n) answered from the pooled neighbours holds    *)
(* each movie id at most once; a movie that is a neighbour of several      *)
(* seeds carries the similarity of the first of them in input order; and   *)
(* the list is the first n of the whole pool sorted by similarity          *)
(* descending.                                                             *)
(***************************************************************************)
\* the neighbours of every seed, seed after seed in input order
Pool(ids, n) == Concat([i \in DOMAIN ids |-> SeedNeighbors(ids[i], n)])

\* the positions of a pool at which a movie id shows for the first time
FirstShows(pool) ==
    {k \in DOMAIN pool : \A j \in 1 .. (k - 1) : pool[j].movieId # pool[k].movieId}

C18_DedupFirstSeedGlobalSort ==
    (Returned("collaborative") /\ last.path = "pooled") =>
        LET pool == Pool(last.call.movie_ids, last.call.n)
            first == FirstShows(pool)
            r == last.result
            shown == {k \in first : \E i \in DOMAIN r : r[i].movieId = pool[k].movieId}
        IN  /\ Cardinality({r[i].movieId : i \in DOMAIN r}) = Len(r)
            /\ Len(r) = Min(last.call.n, Cardinality(first))
            /\ \A i \in DOMAIN r : \E k \in first :
                    /\ pool[k].movieId = r[i].movieId
                    /\ pool[k].similarity_score = r[i].similarity_score
            /\ Descending(r)
            /\ \A k \in first \ shown, i \in DOMAIN r :
                    pool[k].similarity_score <= r[i].similarity_score

\* two seeds give the same movie different similarities, the first seed's is
\* lower and is the one returned, and the pool holds more than n movies
C18_Witness ==
    /\ Returned("collaborative") /\ last.path = "pooled"
    /\ Len(last.call.movie_ids) = 2
    /\ LET a == SeedNeighbors(last.call.movie_ids[1], last.call.n)
           b == SeedNeighbors(last.call.movie_ids[2], last.call.n)
       IN  /\ Cardinality(FirstShows(a \o b)) > last.call.n
           /\ \E i \in DOMAIN last.result, x \in DOMAIN a, y \in DOMAIN b :
                /\ a[x].movieId = last.result[i].movieId
                /\ b[y].movieId = last.result[i].movieId
                /\ b[y].similarity_score > a[x].similarity_score
                /\ last.result[i].similarity_score = a[x].similarity_score

(***************************************************************************)
(* C19: every movie returned by hybrid(ids, n, cw, bw) has the score       *)
(* cw * c + bw * k, c being its score in content_based(ids[0], 2n) and k   *)
(* its score in collaborative(ids, 2n), each 0 if the movie is absent; and *)
(* the movies returned are the n highest such scores over both lists.      *)
(***************************************************************************)
\* the score of movie m in a list (its first entry), 0 if it has none
ScoreIn(list, m) ==
    LET at == {i \in DOMAIN list : list[i].movieId = m}
    IN  IF at = {} THEN 0
        ELSE list[CHOOSE i \in at : \A j \in at : i <= j].similarity_score

\* cw * c + bw * k, the weights being in tenths
Weighted(cw, c, bw, k) == (cw * c) \div WeightOne + (bw * k) \div WeightOne

C19_HybridScoreFormula ==
    Returned("hybrid") =>
        LET ids == last.call.movie_ids
            n == last.call.n
            cw == last.call.content_weight
            bw == last.call.collab_weight
            content == IF ids = <<>> THEN <<>> ELSE ContentBased(ids[1], 2 * n).result
            collab == Collaborative(ids, 2 * n).result
            union == Range(IdsOf(content)) \cup Range(IdsOf(collab))
            expected == [m \in union |->
                            Weighted(cw, ScoreIn(content, m), bw, ScoreIn(collab, m))]
            r == last.result
            shown == {r[i].movieId : i \in DOMAIN r}
        IN  /\ Cardinality(shown) = Len(r)
            /\ shown \subseteq union
            /\ Len(r) = Min(n, Cardinality(union))
            /\ \A i \in DOMAIN r : r[i].similarity_score = expected[r[i].movieId]
            /\ \A m \in union \ shown, i \in DOMAIN r :
                expected[m] <= r[i].similarity_score

\* C19 on the catalogs whose movie ids are unique
C19_HybridScoreFormulaOnUniqueIds == UniqueIds => C19_HybridScoreFormula

(***************************************************************************)
(* C20: every entry of the User-Item Matrix built at construction is the   *)
(* rating of the first row of the rating store for its (userId, movieId)   *)
(* pair, or 0 when the pair has no row; a later row for the same pair does *)
(* not change it.                                                          *)
(***************************************************************************)
HasRow(u, m) ==
    \E i \in DOMAIN ratings_df : ratings_df[i].userId = u /\ ratings_df[i].movieId = m

C20_MatrixKeepsFirstRating ==
    constructed =>
        \A u \in Range(user_item_matrix.index), m \in Range(user_item_matrix.columns) :
            user_item_matrix.values[u][m]
                = IF HasRow(u, m) THEN FirstRating(u, m) ELSE 0

\* C20 on the rating stores that hold one row per (userId, movieId)
C20_MatrixKeepsFirstRatingOnCleanStore ==
    NoDuplicatePairs => C20_MatrixKeepsFirstRating

(***************************************************************************)
(* C21: after construction no query, in any number and any order, changes  *)
(* the engine's catalog copy, rating copy, Content Similarity Matrix,      *)
(* User-Item Matrix or neighbour structure; the two similarity structures  *)
(* are the ones the constructor built from the copies.                     *)
(***************************************************************************)
BuiltByConstructor ==
    constructed =>
        /\ user_item_matrix = PivotTable(ratings_df)
        /\ content_similarity_matrix = CosineSimilarity(movies_df)
        /\ knn_model = FitKnn(user_item_matrix)

\* the structures are the constructor's when the engine is handed over, and
\* no step changes them or the copies they were built from
C21_QueriesChangeNothing ==
    /\ BuiltByConstructor
    /\ [][UNCHANGED <<movies_df, ratings_df, content_similarity_matrix,
                      user_item_matrix, knn_model>>]_vars

\* a for_user query answered through collaborative filtering, which has
\* read the User-Item Matrix, the neighbour structure and the catalog
C21_Witness ==
    /\ Returned("for_user") /\ last.path = "collaborative"
    /\ last.result # <<>>
    /\ BuiltByConstructor

====
